---- MODULE Spec2Model ----
(***************************************************************************)
(* Model of the websocket image store of main.go: handleWebSocket, one     *)
(* handler per connection, storing uploaded images as images/<id>.jpg and  *)
(* serving them back.  Strings that the code inspects (the data URI of an  *)
(* upload, the response) are sequences of one-character strings; file      *)
(* contents are sequences of bytes (0..255).                               *)
(***************************************************************************)
EXTENDS Integers, Sequences, FiniteSets, TLC

VARIABLES
    mode,       \* which bounded scenario is explored: "seq", "fault", "conc", "live"
    pc,         \* per connection: where its handler stands in handleWebSocket
    conn,       \* per connection: "none", "open" or "closed"
    cur,        \* per connection: the message in work and the handler's locals
    files,      \* the directory images/: file name -> [exists, data]
    held,       \* per connection: file handles opened and not yet closed
    out,        \* per connection: the messages sent to the peer, in order
    ver,        \* history: per file, the number of creates and writes so far
    hist        \* history: per connection, the messages handled and their outcomes

vars == <<mode, pc, conn, cur, files, held, out, ver, hist>>

(***************************************************************************)
(* Bounds of the exploration.                                              *)
(***************************************************************************)
\* messages one connection receives when it is the only connection
MaxMsgsSeq == 3
\* messages a lone connection receives where file operations and sends fail
MaxMsgsFault == 3
\* messages two concurrent connections receive, both together
MaxMsgsConc == 3
\* messages the connection receives in the liveness specification
MaxMsgsLive == 2

(***************************************************************************)
(* Strings and bytes.                                                      *)
(***************************************************************************)
Min(a, b) == IF a < b THEN a ELSE b

\* s[from:] of Go, from a 0-based byte index
SliceFrom(s, from) == SubSeq(s, from + 1, Len(s))

\* strings.HasPrefix(s, prefix)
HasPrefix(s, prefix) ==
    /\ Len(s) >= Len(prefix)
    /\ SubSeq(s, 1, Len(prefix)) = prefix

\* a variant: the index of the last occurrence, as strings.LastIndex
Index_Last(s, ch) ==
    IF \E i \in 1..Len(s) : s[i] = ch
    THEN (CHOOSE i \in 1..Len(s) : s[i] = ch /\ \A j \in (i + 1)..Len(s) : s[j] # ch) - 1
    ELSE -1

\* strings.Index(s, ch) for a one-character ch: 0-based index of the first
\* occurrence, -1 when there is none
Index(s, ch) ==
    IF \E i \in 1..Len(s) : s[i] = ch
    THEN (CHOOSE i \in 1..Len(s) : s[i] = ch /\ \A j \in 1..(i - 1) : s[j] # ch) - 1
    ELSE -1

DataImagePrefix == <<"d","a","t","a",":","i","m","a","g","e","/">>

\* a variant: the label names the subtype png
ResponseLabel_Png ==
    <<"d","a","t","a",":","i","m","a","g","e","/","p","n","g",";","b","a","s","e","6","4",",">>

ResponseLabel ==
    <<"d","a","t","a",":","i","m","a","g","e","/","j","p","g",";","b","a","s","e","6","4",",">>

(***************************************************************************)
(* base64.StdEncoding: the standard alphabet, padded with "=", decoding    *)
(* not strict (the unused low bits of a padded quantum are not checked)    *)
(* and skipping "\r" and "\n" wherever they stand.                         *)
(***************************************************************************)
encodeStd ==
    <<"A","B","C","D","E","F","G","H","I","J","K","L","M","N","O","P",
      "Q","R","S","T","U","V","W","X","Y","Z","a","b","c","d","e","f",
      "g","h","i","j","k","l","m","n","o","p","q","r","s","t","u","v",
      "w","x","y","z","0","1","2","3","4","5","6","7","8","9","+","/">>

PadChar == "="

IsSymbol(ch) == \E i \in 1..64 : encodeStd[i] = ch

\* the 6-bit value of an alphabet character (decodeMap)
SymbolValue(ch) == (CHOOSE i \in 1..64 : encodeStd[i] = ch) - 1

IsNewline(ch) == ch = "\n" \/ ch = "\r"

\* the input with the characters the decoder skips removed
RECURSIVE SkipNewlines(_)
SkipNewlines(s) ==
    IF s = <<>> THEN <<>>
    ELSE IF IsNewline(Head(s)) THEN SkipNewlines(Tail(s))
    ELSE <<Head(s)>> \o SkipNewlines(Tail(s))

\* the bytes of one quantum of dlen symbols (4, 3 or 2), values v[1..dlen]
QuantumBytes(v, dlen) ==
    LET v3 == IF dlen >= 3 THEN v[3] ELSE 0
        v4 == IF dlen >= 4 THEN v[4] ELSE 0
        b1 == v[1] * 4 + v[2] \div 16
        b2 == (v[2] % 16) * 16 + v3 \div 4
        b3 == (v3 % 4) * 64 + v4
    IN  SubSeq(<<b1, b2, b3>>, 1, dlen - 1)

\* decodeQuantum over the input without newlines: [err, bytes]
RECURSIVE DecodeQuanta(_)
DecodeQuanta(s) ==
    IF s = <<>> THEN [err |-> FALSE, bytes |-> <<>>]
    ELSE IF Len(s) < 4 THEN [err |-> TRUE, bytes |-> <<>>]
    ELSE LET q == SubSeq(s, 1, 4)
             rest == SubSeq(s, 5, Len(s))
             vals(n) == [i \in 1..n |-> SymbolValue(q[i])]
             syms(n) == \A i \in 1..n : IsSymbol(q[i])
         IN  IF syms(4)
             THEN LET r == DecodeQuanta(rest)
                  IN  [err |-> r.err,
                       bytes |-> QuantumBytes(vals(4), 4) \o r.bytes]
             ELSE IF syms(3) /\ q[4] = PadChar /\ rest = <<>>
             THEN [err |-> FALSE, bytes |-> QuantumBytes(vals(3), 3)]
             ELSE IF syms(2) /\ q[3] = PadChar /\ q[4] = PadChar /\ rest = <<>>
             THEN [err |-> FALSE, bytes |-> QuantumBytes(vals(2), 2)]
             ELSE [err |-> TRUE, bytes |-> <<>>]

\* base64.StdEncoding.DecodeString(s)
DecodeString(s) == DecodeQuanta(SkipNewlines(s))

\* a variant: base64.RawStdEncoding, which writes no padding
RECURSIVE EncodeToString_Raw(_)
EncodeToString_Raw(b) ==
    LET sym(v) == encodeStd[v + 1]
    IN  IF b = <<>> THEN <<>>
        ELSE IF Len(b) = 1
        THEN <<sym(b[1] \div 4), sym((b[1] % 4) * 16)>>
        ELSE IF Len(b) = 2
        THEN <<sym(b[1] \div 4), sym((b[1] % 4) * 16 + b[2] \div 16),
               sym((b[2] % 16) * 4)>>
        ELSE <<sym(b[1] \div 4), sym((b[1] % 4) * 16 + b[2] \div 16),
               sym((b[2] % 16) * 4 + b[3] \div 64), sym(b[3] % 64)>>
             \o EncodeToString_Raw(SubSeq(b, 4, Len(b)))

\* base64.StdEncoding.EncodeToString(b)
RECURSIVE EncodeToString(_)
EncodeToString(b) ==
    LET sym(v) == encodeStd[v + 1]
    IN  IF b = <<>> THEN <<>>
        ELSE IF Len(b) = 1
        THEN <<sym(b[1] \div 4), sym((b[1] % 4) * 16), PadChar, PadChar>>
        ELSE IF Len(b) = 2
        THEN <<sym(b[1] \div 4), sym((b[1] % 4) * 16 + b[2] \div 16),
               sym((b[2] % 16) * 4), PadChar>>
        ELSE <<sym(b[1] \div 4), sym((b[1] % 4) * 16 + b[2] \div 16),
               sym((b[2] % 16) * 4 + b[3] \div 64), sym(b[3] % 64)>>
             \o EncodeToString(SubSeq(b, 4, Len(b)))

(***************************************************************************)
(* Inbound messages.  A raw message is either text that is no JSON or a    *)
(* JSON object with the fields command, id and base64Img.  The text of a   *)
(* base64Img field is kept by name (img); PayloadText gives its characters,*)
(* "" names an absent field.                                               *)
(***************************************************************************)
Base64Marker == <<";","b","a","s","e","6","4",",">>

DataURI(subtype, b64) == DataImagePrefix \o subtype \o Base64Marker \o b64

\* the base64 texts: one byte "A" canonical; three bytes "XYZ" canonical; one
\* byte "A" with unused bits set in the padded quantum; one byte "A" with a
\* line break inside; a character outside the alphabet
B64Text(name) ==
    CASE name = "A" -> <<"Q","Q","=","=">>
      [] name = "XYZ" -> <<"W","F","l","a">>
      [] name = "loose" -> <<"Q","R","=","=">>
      [] name = "wrapped" -> <<"Q","Q","\n","=","=">>
      [] name = "broken" -> <<"Q","!","=","=">>

PayloadText(img) ==
    CASE img = "" -> <<>>
      [] img = "PngA" -> DataURI(<<"p","n","g">>, B64Text("A"))
      [] img = "GifXYZ" -> DataURI(<<"g","i","f">>, B64Text("XYZ"))
      [] img = "PngLoose" -> DataURI(<<"p","n","g">>, B64Text("loose"))
      [] img = "PngWrapped" -> DataURI(<<"p","n","g">>, B64Text("wrapped"))
      [] img = "PngBroken" -> DataURI(<<"p","n","g">>, B64Text("broken"))
      \* no comma at all
      [] img = "NoComma" -> DataImagePrefix \o <<"p","n","g">>
      \* a comma inside the subtype
      [] img = "CommaSubtype" -> DataURI(<<"p",",","g">>, B64Text("A"))
      \* not an image data URI
      [] img = "NoPrefix" ->
            <<"d","a","t","a",":","t","e","x","t","/","x">> \o Base64Marker \o B64Text("A")

Payloads ==
    {"PngA", "GifXYZ", "PngLoose", "PngWrapped", "PngBroken", "NoComma",
     "CommaSubtype", "NoPrefix"}

NotJSON == [json |-> FALSE, command |-> "", id |-> "", img |-> ""]

UploadMsg(id, img) == [json |-> TRUE, command |-> "upload", id |-> id, img |-> img]

RequestMsg(id) == [json |-> TRUE, command |-> "request", id |-> id, img |-> ""]

OtherMsg(id) == [json |-> TRUE, command |-> "delete", id |-> id, img |-> ""]

\* the messages a lone connection may receive
SeqMessages ==
    {UploadMsg("a", p) : p \in Payloads}
        \cup {UploadMsg("", "PngA"), RequestMsg("a"), RequestMsg(""), OtherMsg("a"), NotJSON}

\* the messages each of two concurrent connections may receive
ConcMessages == {UploadMsg("a", "PngA"), UploadMsg("a", "GifXYZ"), RequestMsg("a")}

\* the messages a lone connection may receive where file operations and
\* sends may fail
FaultMessages ==
    {UploadMsg("a", "PngA"), UploadMsg("a", "GifXYZ"), RequestMsg("a"), NotJSON}

Messages(md) ==
    CASE md = "conc" -> ConcMessages
      [] md = "fault" -> FaultMessages
      [] OTHER -> SeqMessages

MaxMsgs(md) ==
    CASE md = "conc" -> MaxMsgsConc
      [] md = "fault" -> MaxMsgsFault
      [] md = "live" -> MaxMsgsLive
      [] OTHER -> MaxMsgsSeq

\* whether file operations and sends may fail in scenario md
Faults(md) == md \in {"fault", "live"}

Conns == {1, 2}

Active(md) == IF md = "conc" THEN {1, 2} ELSE {1}

Ids == {"", "a"}

\* fileName := imgData.ID + ".jpg", under images/
FileName(id) == "images/" \o id \o ".jpg"

FileNames == {FileName(id) : id \in Ids}

\* json.Unmarshal(message, &imgData): an absent field keeps its zero value
Unmarshal(raw) ==
    IF ~raw.json THEN [err |-> TRUE, v |-> [Command |-> "", ID |-> "", Base64Img |-> <<>>]]
    ELSE [err |-> FALSE,
          v |-> [Command |-> raw.command, ID |-> raw.id,
                 Base64Img |-> PayloadText(raw.img)]]

\* variants: a break there, which leaves the for loop
AfterDecodeFailure_Break == "closing"

AfterNotFound_Break == "closing"

\* where line 44's continue leaves the handler: at the next ReadMessage
AfterDecodeFailure == "read"

\* where line 85's continue leaves the handler: at the next ReadMessage
AfterNotFound == "read"

\* where line 110's break leaves the handler: it leaves the switch, not the
\* for loop, so the loop reads the next message
AfterSendFailure == "read"

\* where line 37's break leaves the handler: out of the for loop, returning
AfterReadFailure == "closing"

\* a variant that drops an upload without an id, as case "request" does
UploadChecks_EmptyIdRejected(img) ==
    IF img.ID = "" \/ ~HasPrefix(img.Base64Img, DataImagePrefix)
    THEN [next |-> "read", o |-> "noprefix", bytes |-> <<>>]
    ELSE LET imageDataIndex == Index(img.Base64Img, ",") + 1
         IN  IF imageDataIndex <= 0
             THEN [next |-> "read", o |-> "nocomma", bytes |-> <<>>]
             ELSE LET d == DecodeString(SliceFrom(img.Base64Img, imageDataIndex))
                  IN  IF d.err
                      THEN [next |-> "read", o |-> "badb64", bytes |-> <<>>]
                      ELSE [next |-> "create", o |-> "", bytes |-> d.bytes]

\* a variant without the check of the prefix
UploadChecks_NoPrefixCheck(img) ==
    LET imageDataIndex == Index(img.Base64Img, ",") + 1
    IN  IF imageDataIndex <= 0
        THEN [next |-> "read", o |-> "nocomma", bytes |-> <<>>]
        ELSE LET d == DecodeString(SliceFrom(img.Base64Img, imageDataIndex))
             IN  IF d.err
                 THEN [next |-> "read", o |-> "badb64", bytes |-> <<>>]
                 ELSE [next |-> "create", o |-> "", bytes |-> d.bytes]

\* a variant that does not look at the error of DecodeString
UploadChecks_DecodeErrorIgnored(img) ==
    IF ~HasPrefix(img.Base64Img, DataImagePrefix)
    THEN [next |-> "read", o |-> "noprefix", bytes |-> <<>>]
    ELSE LET imageDataIndex == Index(img.Base64Img, ",") + 1
         IN  IF imageDataIndex <= 0
             THEN [next |-> "read", o |-> "nocomma", bytes |-> <<>>]
             ELSE [next |-> "create", o |-> "",
                   bytes |-> DecodeString(SliceFrom(img.Base64Img, imageDataIndex)).bytes]

\* case "upload", up to os.Create: the outcome of the checks and the bytes
UploadChecks(img) ==
    IF ~HasPrefix(img.Base64Img, DataImagePrefix)
    THEN [next |-> "read", o |-> "noprefix", bytes |-> <<>>]
    ELSE LET imageDataIndex == Index(img.Base64Img, ",") + 1
         IN  IF imageDataIndex <= 0
             THEN [next |-> "read", o |-> "nocomma", bytes |-> <<>>]
             ELSE LET d == DecodeString(SliceFrom(img.Base64Img, imageDataIndex))
                  IN  IF d.err
                      THEN [next |-> "read", o |-> "badb64", bytes |-> <<>>]
                      ELSE [next |-> "create", o |-> "", bytes |-> d.bytes]

\* a variant without the check of the id
RequestChecks_AnyId(img) == [next |-> "stat", o |-> "", bytes |-> <<>>]

\* case "request", up to os.Stat
RequestChecks(img) ==
    IF img.ID # ""
    THEN [next |-> "stat", o |-> "", bytes |-> <<>>]
    ELSE [next |-> "read", o |-> "emptyid", bytes |-> <<>>]

\* one message from json.Unmarshal to the first system call of its case: where
\* the handler goes next, and the outcome o if the message ends here
Dispatch(raw) ==
    LET u == Unmarshal(raw)
    IN  IF u.err
        THEN [next |-> AfterDecodeFailure, o |-> "badjson", bytes |-> <<>>, id |-> ""]
        ELSE LET r == CASE u.v.Command = "upload" -> UploadChecks(u.v)
                        [] u.v.Command = "request" -> RequestChecks(u.v)
                        [] OTHER -> [next |-> "read", o |-> "unknown", bytes |-> <<>>]
             IN  [next |-> r.next, o |-> r.o, bytes |-> r.bytes, id |-> u.v.ID]

\* responseData := "data:image/jpg;base64," + encodedImage
ResponseData(imgBytes) == ResponseLabel \o EncodeToString(imgBytes)

(***************************************************************************)
(* Files.  os.Create truncates; the handle it returns writes at offset 0,  *)
(* over whatever the file holds by then.  file.Read fills a buffer of the  *)
(* size that file.Stat reported, from offset 0.                            *)
(***************************************************************************)
NoFile == [exists |-> FALSE, data |-> <<>>]

\* a variant: an open without O_TRUNC, which keeps what the file holds
Created_KeepsData(file) == [exists |-> TRUE, data |-> file.data]

\* os.Create: the file exists and is empty
Created(file) == [exists |-> TRUE, data |-> <<>>]

\* file.Write(b) through a handle at offset 0
WrittenAt0(file, b) ==
    [exists |-> TRUE, data |-> b \o SubSeq(file.data, Len(b) + 1, Len(file.data))]

Zeros(n) == [i \in 1..n |-> 0]

\* file.Read(buf) with len(buf) = size: err is io.EOF of an empty file
ReadInto(file, size) ==
    IF size = 0 THEN [err |-> FALSE, buf |-> <<>>]
    ELSE IF Len(file.data) = 0 THEN [err |-> TRUE, buf |-> Zeros(size)]
    ELSE LET n == Min(size, Len(file.data))
         IN  [err |-> FALSE, buf |-> SubSeq(file.data, 1, n) \o Zeros(size - n)]

(***************************************************************************)
(* The handler.                                                            *)
(***************************************************************************)
Idle == [m |-> NotJSON, id |-> "", bytes |-> <<>>, size |-> 0, v0 |-> 0, ver |-> 0]

\* a handled message: its outcome o, the version of the file of its id when the
\* handler first (v0: after its own os.Create, or at os.Stat) and last (ver:
\* after its own write, or at file.Read) touched or looked at it, and the
\* place of its response in out (0: no response)
Entry(m, o, v0, v, k) == [m |-> m, o |-> o, v0 |-> v0, ver |-> v, k |-> k]

\* the message in work is finished with outcome o; the loop goes on at `next`
Finish(c, o, v, k, next) ==
    /\ hist' = [hist EXCEPT ![c] = Append(@, Entry(cur[c].m, o, cur[c].v0, v, k))]
    /\ cur' = [cur EXCEPT ![c] = Idle]
    /\ pc' = [pc EXCEPT ![c] = next]

InitMode(md) ==
    /\ mode = md
    /\ pc = [c \in Conns |-> IF c \in Active(md) THEN "init" ELSE "absent"]
    /\ conn = [c \in Conns |-> "none"]
    /\ cur = [c \in Conns |-> Idle]
    /\ files = [f \in FileNames |-> NoFile]
    /\ held = [c \in Conns |-> 0]
    /\ out = [c \in Conns |-> <<>>]
    /\ ver = [f \in FileNames |-> 0]
    /\ hist = [c \in Conns |-> <<>>]

Init == \E md \in {"seq", "fault", "conc"} : InitMode(md)

InitLive == InitMode("live")

\* the handler of c is between reading a message and finishing it
InWork(c) == pc[c] \in {"create", "write", "stat", "open", "fread", "send"}

\* the messages received so far, over all connections
Received ==
    LET n(c) == Len(hist[c]) + IF InWork(c) THEN 1 ELSE 0
    IN  n(1) + n(2)

\* upgrader.Upgrade succeeds
Upgrade(c) ==
    /\ pc[c] = "init"
    /\ conn' = [conn EXCEPT ![c] = "open"]
    /\ pc' = [pc EXCEPT ![c] = "read"]
    /\ UNCHANGED <<mode, cur, files, held, out, ver, hist>>

\* upgrader.Upgrade fails: the handler returns without a connection
UpgradeFail(c) ==
    /\ pc[c] = "init"
    /\ pc' = [pc EXCEPT ![c] = "done"]
    /\ UNCHANGED <<mode, conn, cur, files, held, out, ver, hist>>

\* conn.ReadMessage returns a message; it is decoded and dispatched
ReadMessage(c) ==
    /\ pc[c] = "read"
    /\ conn[c] = "open"
    /\ Received < MaxMsgs(mode)
    /\ \E raw \in Messages(mode) :
         LET d == Dispatch(raw)
         IN  IF d.o # ""
             THEN /\ hist' = [hist EXCEPT ![c] =
                                Append(@, Entry(raw, d.o, ver[FileName(d.id)],
                                                ver[FileName(d.id)], 0))]
                  /\ pc' = [pc EXCEPT ![c] = d.next]
                  /\ UNCHANGED cur
             ELSE /\ cur' = [cur EXCEPT ![c] =
                               [m |-> raw, id |-> d.id, bytes |-> d.bytes,
                                size |-> 0, v0 |-> ver[FileName(d.id)], ver |-> 0]]
                  /\ pc' = [pc EXCEPT ![c] = d.next]
                  /\ UNCHANGED hist
    /\ UNCHANGED <<mode, conn, files, held, out, ver>>

\* a variant: the files are not closed when the handler returns
ReadMessageFail_HandlesLeft(c) ==
    /\ pc[c] = "read"
    /\ conn[c] = "open"
    /\ pc' = [pc EXCEPT ![c] = AfterReadFailure]
    /\ UNCHANGED <<mode, conn, cur, files, held, out, ver, hist>>

\* conn.ReadMessage returns an error: break, the handler returns and its
\* deferred calls run, last deferred first: the file.Close calls
ReadMessageFail(c) ==
    /\ pc[c] = "read"
    /\ conn[c] = "open"
    /\ pc' = [pc EXCEPT ![c] = AfterReadFailure]
    /\ held' = [held EXCEPT ![c] = 0]
    /\ UNCHANGED <<mode, conn, cur, files, out, ver, hist>>

\* os.Create succeeds; defer file.Close()
OsCreate(c) ==
    /\ pc[c] = "create"
    /\ LET f == FileName(cur[c].id)
       IN  /\ files' = [files EXCEPT ![f] = Created(@)]
           /\ ver' = [ver EXCEPT ![f] = @ + 1]
    /\ cur' = [cur EXCEPT ![c].v0 = ver[FileName(cur[c].id)] + 1]
    /\ held' = [held EXCEPT ![c] = @ + 1]
    /\ pc' = [pc EXCEPT ![c] = "write"]
    /\ UNCHANGED <<mode, conn, out, hist>>

\* where line 67's continue leaves the handler: at the next ReadMessage
AfterCreateFailure == "read"

\* os.Create fails
OsCreateFail(c) ==
    /\ pc[c] = "create"
    /\ Faults(mode)
    /\ Finish(c, "createfail", ver[FileName(cur[c].id)], 0, AfterCreateFailure)
    /\ UNCHANGED <<mode, conn, files, held, out, ver>>

\* file.Write succeeds
FileWrite(c) ==
    /\ pc[c] = "write"
    /\ LET f == FileName(cur[c].id)
       IN  /\ files' = [files EXCEPT ![f] = WrittenAt0(@, cur[c].bytes)]
           /\ ver' = [ver EXCEPT ![f] = @ + 1]
           /\ Finish(c, "stored", ver[f] + 1, 0, "read")
    /\ UNCHANGED <<mode, conn, held, out>>

\* where line 74's continue leaves the handler: at the next ReadMessage
AfterWriteFailure == "read"

\* file.Write fails after writing n bytes, fewer than all
FileWriteFail(c) ==
    /\ pc[c] = "write"
    /\ Faults(mode)
    /\ \E n \in 0..(Len(cur[c].bytes) - 1) :
         LET f == FileName(cur[c].id)
         IN  /\ files' = [files EXCEPT ![f] = WrittenAt0(@, SubSeq(cur[c].bytes, 1, n))]
             /\ ver' = [ver EXCEPT ![f] = @ + 1]
    /\ Finish(c, "writefail", ver[FileName(cur[c].id)] + 1, 0, AfterWriteFailure)
    /\ UNCHANGED <<mode, conn, held, out>>

\* a variant: presence is looked up among the uploads of the connection
OsStat_OwnUploads(c) ==
    /\ pc[c] = "stat"
    /\ IF \E i \in 1..Len(hist[c]) :
             hist[c][i].o = "stored" /\ hist[c][i].m.id = cur[c].id
       THEN /\ pc' = [pc EXCEPT ![c] = "open"]
            /\ cur' = [cur EXCEPT ![c].v0 = ver[FileName(cur[c].id)]]
            /\ UNCHANGED hist
       ELSE Finish(c, "notfound", ver[FileName(cur[c].id)], 0, AfterNotFound)
    /\ UNCHANGED <<mode, conn, files, held, out, ver>>

\* os.Stat and os.IsNotExist
OsStat(c) ==
    /\ pc[c] = "stat"
    /\ IF files[FileName(cur[c].id)].exists
       THEN /\ pc' = [pc EXCEPT ![c] = "open"]
            /\ cur' = [cur EXCEPT ![c].v0 = ver[FileName(cur[c].id)]]
            /\ UNCHANGED hist
       ELSE Finish(c, "notfound", ver[FileName(cur[c].id)], 0, AfterNotFound)
    /\ UNCHANGED <<mode, conn, files, held, out, ver>>

\* a variant: the file is opened as os.Create opens it, truncating it
OsOpen_Truncating(c) ==
    /\ pc[c] = "open"
    /\ held' = [held EXCEPT ![c] = @ + 1]
    /\ files' = [files EXCEPT ![FileName(cur[c].id)] = Created(@)]
    /\ cur' = [cur EXCEPT ![c].size = 0]
    /\ pc' = [pc EXCEPT ![c] = "fread"]
    /\ UNCHANGED <<mode, conn, out, ver, hist>>

\* os.Open succeeds; defer file.Close(); file.Stat gives the buffer's size
OsOpen(c) ==
    /\ pc[c] = "open"
    /\ held' = [held EXCEPT ![c] = @ + 1]
    /\ cur' = [cur EXCEPT ![c].size = Len(files[FileName(cur[c].id)].data)]
    /\ pc' = [pc EXCEPT ![c] = "fread"]
    /\ UNCHANGED <<mode, conn, files, out, ver, hist>>

\* a variant: a break that leaves the for loop
AfterOpenFailure_Break == "closing"

\* where line 91's continue leaves the handler: at the next ReadMessage
AfterOpenFailure == "read"

\* os.Open fails
OsOpenFail(c) ==
    /\ pc[c] = "open"
    /\ Faults(mode)
    /\ Finish(c, "openfail", ver[FileName(cur[c].id)], 0, AfterOpenFailure)
    /\ UNCHANGED <<mode, conn, files, held, out, ver>>

\* where line 101's continue leaves the handler: at the next ReadMessage
AfterFileReadFailure == "read"

\* file.Read on the file as it is now
FileRead(c) ==
    /\ pc[c] = "fread"
    /\ LET f == FileName(cur[c].id)
           r == ReadInto(files[f], cur[c].size)
       IN  IF r.err
           THEN Finish(c, "readfail", ver[f], 0, AfterFileReadFailure)
           ELSE /\ cur' = [cur EXCEPT ![c].bytes = r.buf, ![c].ver = ver[f]]
                /\ pc' = [pc EXCEPT ![c] = "send"]
                /\ UNCHANGED hist
    /\ UNCHANGED <<mode, conn, files, held, out, ver>>

\* file.Read fails with an I/O error
FileReadFail(c) ==
    /\ pc[c] = "fread"
    /\ Faults(mode)
    /\ Finish(c, "readfail", ver[FileName(cur[c].id)], 0, AfterFileReadFailure)
    /\ UNCHANGED <<mode, conn, files, held, out, ver>>

\* a variant: the response is sent a second time
WriteMessage_Twice(c) ==
    /\ pc[c] = "send"
    /\ conn[c] = "open"
    /\ out' = [out EXCEPT ![c] =
                 Append(Append(@, ResponseData(cur[c].bytes)), ResponseData(cur[c].bytes))]
    /\ Finish(c, "sent", cur[c].ver, Len(out[c]) + 1, "read")
    /\ UNCHANGED <<mode, conn, files, held, ver>>

\* conn.WriteMessage succeeds
WriteMessage(c) ==
    /\ pc[c] = "send"
    /\ conn[c] = "open"
    /\ out' = [out EXCEPT ![c] = Append(@, ResponseData(cur[c].bytes))]
    /\ Finish(c, "sent", cur[c].ver, Len(out[c]) + 1, "read")
    /\ UNCHANGED <<mode, conn, files, held, ver>>

\* conn.WriteMessage returns an error
WriteMessageFail(c) ==
    /\ pc[c] = "send"
    /\ Faults(mode)
    /\ Finish(c, "sendfail", cur[c].ver, 0, AfterSendFailure)
    /\ UNCHANGED <<mode, conn, files, held, out, ver>>

\* a variant: the handler returns without closing the connection
ConnClose_Missing(c) ==
    /\ pc[c] = "closing"
    /\ pc' = [pc EXCEPT ![c] = "done"]
    /\ UNCHANGED <<mode, conn, cur, files, held, out, ver, hist>>

\* the deferred conn.Close runs, after the file.Close calls
ConnClose(c) ==
    /\ pc[c] = "closing"
    /\ conn' = [conn EXCEPT ![c] = "closed"]
    /\ pc' = [pc EXCEPT ![c] = "done"]
    /\ UNCHANGED <<mode, cur, files, held, out, ver, hist>>

\* the steps the handler of c takes by itself, once its blocking call returns
Local(c) ==
    \/ OsCreate(c) \/ OsCreateFail(c)
    \/ FileWrite(c) \/ FileWriteFail(c)
    \/ OsStat(c)
    \/ OsOpen(c) \/ OsOpenFail(c)
    \/ FileRead(c) \/ FileReadFail(c)
    \/ WriteMessage(c) \/ WriteMessageFail(c)
    \/ ConnClose(c)

Next ==
    \E c \in Conns :
        \/ Upgrade(c) \/ UpgradeFail(c)
        \/ ReadMessage(c) \/ ReadMessageFail(c)
        \/ Local(c)

Spec == Init /\ [][Next]_vars

\* every handler goes on whenever it can, and the transport read of every
\* connection fails at some time (the peer leaves); messages arrive as the
\* peer pleases
LiveSpec ==
    /\ InitLive
    /\ [][Next]_vars
    /\ \A c \in Conns : WF_vars(Local(c)) /\ WF_vars(ReadMessageFail(c))

(***************************************************************************)
(* Vocabulary of the properties.                                           *)
(***************************************************************************)
Entries(c) == 1..Len(hist[c])

IsUpload(m) == m.json /\ m.command = "upload"

IsRequest(m) == m.json /\ m.command = "request"

\* the response that entry e of connection c was answered with
ResponseOf(c, e) == out[c][e.k]

\* how many of the first n messages of c were answered
Answered(c, n) == Cardinality({j \in 1..n : hist[c][j].k > 0})

\* the place of the first ";base64," in a payload, 0 when there is none
MarkerAt(p) ==
    LET at(i) == SubSeq(p, i, i + Len(Base64Marker) - 1) = Base64Marker
        places == {i \in 1..(Len(p) - Len(Base64Marker) + 1) : at(i)}
    IN  IF places = {} THEN 0 ELSE CHOOSE i \in places : \A j \in places : i <= j

\* the payload reads data:image/<x>;base64,<b64>
HasForm(p) == HasPrefix(p, DataImagePrefix) /\ MarkerAt(p) > Len(DataImagePrefix)

\* its <x> and its <b64>
SubtypeOf(p) == SubSeq(p, Len(DataImagePrefix) + 1, MarkerAt(p) - 1)

B64Of(p) == SubSeq(p, MarkerAt(p) + Len(Base64Marker), Len(p))

\* a valid data URI of that form: <x> is a subtype name (no comma in it) and
\* <b64> is base64 text
ValidDataURI(p) ==
    /\ HasForm(p)
    /\ Index(SubtypeOf(p), ",") = -1
    /\ ~DecodeString(B64Of(p)).err

\* base64 text as an encoder writes it: no line breaks, and the bits of the
\* last symbol that a padded quantum does not use are zero
Canonical(b) ==
    /\ \A i \in 1..Len(b) : ~IsNewline(b[i])
    /\ Len(b) >= 4 /\ b[Len(b)] = PadChar =>
         IF b[Len(b) - 1] = PadChar
         THEN SymbolValue(b[Len(b) - 2]) % 16 = 0
         ELSE SymbolValue(b[Len(b) - 1]) % 4 = 0

\* the bytes an upload message asks to store
Content(m) == UploadChecks(Unmarshal(m).v).bytes

\* outcomes that a failing file system or transport produces
FaultOutcomes == {"createfail", "writefail", "openfail", "readfail", "sendfail"}

(***************************************************************************)
(* C1.  Upload then request of the same id on one connection.              *)
(***************************************************************************)
\* entry u is an upload whose own create and write nothing came between, and
\* entry r read the file as that write left it
Undisturbed(u, r) == u.ver = u.v0 + 1 /\ r.ver = u.ver

\* C1 as claimed: for every id and every valid payload
\* data:image/<x>;base64,<b64>, an upload followed on the same connection by
\* a request of the same id is answered with data:image/jpg;base64,<b64>,
\* the base64 text being the uploaded one (where no file operation or send
\* fails and nothing else writes the file meanwhile).
C1_RoundTripAsClaimed ==
    \A c \in Conns : \A i \in Entries(c) :
        i < Len(hist[c]) =>
            LET u == hist[c][i]
                r == hist[c][i + 1]
                p == PayloadText(u.m.img)
            IN  (/\ IsUpload(u.m) /\ ValidDataURI(p)
                 /\ r.m = RequestMsg(u.m.id)
                 /\ u.o \notin FaultOutcomes /\ r.o \notin FaultOutcomes
                 /\ u.o = "stored" => Undisturbed(u, r)) =>
                    /\ r.k > 0
                    /\ ResponseOf(c, r) = ResponseLabel \o B64Of(p)

\* C1 amended: an upload of a valid payload data:image/<x>;base64,<b64> stores
\* its file unless os.Create or file.Write fails; when the id is not empty and
\* a request of the same id follows on the same connection, with no other
\* create or write of the file between the upload's os.Create and the
\* request's file.Read and no file or transport failure, the request is
\* answered exactly once, with data:image/jpg;base64,<e>, e the padded
\* standard encoding of the bytes that <b64> decodes to; e is <b64> itself
\* when <b64> is canonical.
C1_RoundTrip ==
    \A c \in Conns : \A i \in Entries(c) :
        LET u == hist[c][i]
            p == PayloadText(u.m.img)
        IN  (IsUpload(u.m) /\ ValidDataURI(p) /\ u.o \notin FaultOutcomes) =>
                /\ u.o = "stored"
                /\ (i < Len(hist[c]) /\ u.m.id # "") =>
                     LET r == hist[c][i + 1]
                     IN  (/\ r.m = RequestMsg(u.m.id)
                          /\ r.o \notin FaultOutcomes
                          /\ Undisturbed(u, r)) =>
                             /\ r.o = "sent"
                             /\ r.k = Answered(c, i) + 1
                             /\ r.k <= Len(out[c])
                             /\ ResponseOf(c, r) =
                                  ResponseLabel
                                      \o EncodeToString(DecodeString(B64Of(p)).bytes)
                             /\ Canonical(B64Of(p)) =>
                                  ResponseOf(c, r) = ResponseLabel \o B64Of(p)

\* an upload whose base64 text is not canonical has been stored and answered
\* on request, with the canonical text of the same byte
C1_Witness ==
    \E c \in Conns : \E i \in Entries(c) :
        /\ i < Len(hist[c])
        /\ hist[c][i].m = UploadMsg("a", "PngLoose") /\ hist[c][i].o = "stored"
        /\ hist[c][i + 1].m = RequestMsg("a") /\ hist[c][i + 1].o = "sent"
        /\ Undisturbed(hist[c][i], hist[c][i + 1])
        /\ ResponseOf(c, hist[c][i + 1]) = ResponseLabel \o B64Text("A")
        /\ B64Text("A") # B64Text("loose")

(***************************************************************************)
(* C2.  Two uploads of one id, one after the other, then a request.        *)
(***************************************************************************)
\* u2 was created right after u1 was written, and written right after that
OneAfterTheOther(u1, u2) == u2.v0 = u1.ver + 1 /\ u2.ver = u2.v0 + 1

\* C2: when two uploads of the same id stored their files one after the
\* other (on one connection or on two) and a request of that id that began
\* after the second is answered, with no create or write of the file in
\* between, the response carries the bytes of the second upload.
C2_LastUploadWins ==
    \A c1, c2, c3 \in Conns :
        \A i \in Entries(c1) : \A j \in Entries(c2) : \A k \in Entries(c3) :
            LET u1 == hist[c1][i]
                u2 == hist[c2][j]
                r == hist[c3][k]
            IN  (/\ IsUpload(u1.m) /\ u1.o = "stored"
                 /\ IsUpload(u2.m) /\ u2.o = "stored"
                 /\ u1.m.id = u2.m.id
                 /\ OneAfterTheOther(u1, u2)
                 /\ IsRequest(r.m) /\ r.m.id = u2.m.id /\ r.o = "sent"
                 /\ r.v0 = u2.ver /\ r.ver = u2.ver) =>
                    ResponseOf(c3, r) = ResponseData(Content(u2.m))

\* three bytes were stored, then one byte under the same id, and the request
\* that followed was answered
C2_Witness ==
    \E c \in Conns :
        /\ Len(hist[c]) = 3
        /\ hist[c][1].m = UploadMsg("a", "GifXYZ") /\ hist[c][1].o = "stored"
        /\ hist[c][2].m = UploadMsg("a", "PngA") /\ hist[c][2].o = "stored"
        /\ OneAfterTheOther(hist[c][1], hist[c][2])
        /\ hist[c][3].m = RequestMsg("a") /\ hist[c][3].o = "sent"
        /\ hist[c][3].v0 = hist[c][2].ver /\ hist[c][3].ver = hist[c][2].ver
        /\ Len(Content(hist[c][2].m)) < Len(Content(hist[c][1].m))

(***************************************************************************)
(* C3.  A failed send.                                                     *)
(***************************************************************************)
\* C3 as claimed: once the send of a response has failed on a connection, the
\* handler reads and handles no further message on it.
C3_SendFailureEndsLoop ==
    \A c \in Conns : \A i \in Entries(c) :
        hist[c][i].o = "sendfail" => i = Len(hist[c]) /\ ~InWork(c)

(***************************************************************************)
(* C4.  Two concurrent uploads of one id.                                  *)
(***************************************************************************)
\* each of the two uploads created the file before the other wrote it
Concurrent(u1, u2) == u1.v0 < u2.ver /\ u2.v0 < u1.ver

\* C4 as claimed: when two uploads of one id ran concurrently on the two
\* connections and both stored their bytes, and nothing touched the file
\* since, the file holds exactly the bytes of the upload that wrote last.
C4_LastWriteWinsConcurrently ==
    \A i \in Entries(1) : \A j \in Entries(2) :
        LET u1 == hist[1][i]
            u2 == hist[2][j]
            f == FileName(u1.m.id)
            last == IF u1.ver > u2.ver THEN u1 ELSE u2
        IN  (/\ IsUpload(u1.m) /\ u1.o = "stored"
             /\ IsUpload(u2.m) /\ u2.o = "stored"
             /\ u1.m.id = u2.m.id
             /\ Concurrent(u1, u2)
             /\ ver[f] = last.ver) =>
                files[f].data = Content(last.m)

(***************************************************************************)
(* Steps that finish a message, and what a skipped message leaves alone.   *)
(***************************************************************************)
\* this step ends the handling of a message of connection c
Handled(c) == Len(hist'[c]) = Len(hist[c]) + 1

\* the message it ends
Last(c) == hist'[c][Len(hist'[c])]

\* the message was dropped where it was read: no file changed, nothing sent,
\* the connection open and its handler back at conn.ReadMessage as before
Skipped(c) ==
    /\ pc[c] = "read" /\ conn[c] = "open"
    /\ UNCHANGED <<pc, conn, cur, files, held, out, ver>>

(***************************************************************************)
(* C5.  A request of an id that has no file.                               *)
(***************************************************************************)
\* C5: when os.Stat finds no file for the requested id, the handler sends
\* nothing, changes no file, and stands at conn.ReadMessage again with the
\* connection open.
C5_MissingFileSkipped ==
    [][\A c \in Conns :
          (/\ pc[c] = "stat"
           /\ ~files[FileName(cur[c].id)].exists
           /\ pc'[c] # "stat") =>
              /\ pc'[c] = "read" /\ conn'[c] = "open"
              /\ Handled(c) /\ Last(c).k = 0
              /\ UNCHANGED <<files, out, held>>]_vars

\* a request found no file, and the next message on the connection was
\* stored
C5_Witness ==
    \E c \in Conns : \E i \in Entries(c) :
        /\ i < Len(hist[c])
        /\ hist[c][i].m = RequestMsg("a") /\ hist[c][i].o = "notfound"
        /\ hist[c][i + 1].o = "stored"

(***************************************************************************)
(* C6.  An upload with malformed base64 text after the comma.              *)
(***************************************************************************)
MalformedBase64(m) ==
    /\ IsUpload(m)
    /\ LET p == PayloadText(m.img)
       IN  /\ HasPrefix(p, DataImagePrefix)
           /\ Index(p, ",") >= 0
           /\ DecodeString(SliceFrom(p, Index(p, ",") + 1)).err

\* C6: an upload whose text after the comma is malformed base64 never
\* reaches os.Create, and the step that handles it changes no file, sends
\* nothing and leaves the connection open with its handler at
\* conn.ReadMessage, as it was before the message.
C6_MalformedBase64Skipped ==
    /\ [](\A c \in Conns : InWork(c) => ~MalformedBase64(cur[c].m))
    /\ [][\A c \in Conns :
            (Handled(c) /\ MalformedBase64(Last(c).m)) => Skipped(c)]_vars

\* a malformed upload was dropped, and the well-formed upload and the request
\* that followed it were stored and answered
C6_Witness ==
    \E c \in Conns :
        /\ Len(hist[c]) = 3
        /\ hist[c][1].m = UploadMsg("a", "PngBroken") /\ hist[c][1].o = "badb64"
        /\ hist[c][2].m = UploadMsg("a", "PngA") /\ hist[c][2].o = "stored"
        /\ hist[c][3].m = RequestMsg("a") /\ hist[c][3].o = "sent"

(***************************************************************************)
(* C7.  An upload whose payload does not start with data:image/.           *)
(***************************************************************************)
NoPrefixUpload(m) == IsUpload(m) /\ ~HasPrefix(PayloadText(m.img), DataImagePrefix)

\* C7: an upload whose payload does not start with data:image/ never reaches
\* os.Create, and the step that handles it changes no file and sends nothing;
\* a later request of its id on the connection, the file of that id never
\* created by then, is not answered.
C7_NoPrefixIsNoOp ==
    /\ [](\A c \in Conns : InWork(c) => ~NoPrefixUpload(cur[c].m))
    /\ [][\A c \in Conns :
            (Handled(c) /\ NoPrefixUpload(Last(c).m)) => Skipped(c)]_vars
    /\ [](\A c \in Conns : \A i, j \in Entries(c) :
            (/\ i < j
             /\ NoPrefixUpload(hist[c][i].m)
             /\ IsRequest(hist[c][j].m) /\ hist[c][j].m.id = hist[c][i].m.id
             /\ hist[c][j].ver = 0) =>
                hist[c][j].k = 0 /\ hist[c][j].o \in {"notfound", "emptyid"})

\* such an upload was dropped and the request of its id found no file
C7_Witness ==
    \E c \in Conns :
        /\ Len(hist[c]) >= 2
        /\ hist[c][1].m = UploadMsg("a", "NoPrefix") /\ hist[c][1].o = "noprefix"
        /\ hist[c][2].m = RequestMsg("a") /\ hist[c][2].o = "notfound"
        /\ out[c] = <<>>

(***************************************************************************)
(* C8.  A message that is no JSON.                                         *)
(***************************************************************************)
\* C8: the step that handles a message that json.Unmarshal rejects changes
\* nothing but the record of handled messages: the connection stays open, its
\* handler at conn.ReadMessage, files, handles and responses as they were, so
\* that the next message meets the state it would have met without it.
C8_NotJSONSkipped ==
    [][\A c \in Conns :
          (Handled(c) /\ Unmarshal(Last(c).m).err) => Skipped(c)]_vars

\* text that is no JSON was dropped between an upload and the request that
\* was answered with it
C8_Witness ==
    \E c \in Conns :
        /\ Len(hist[c]) = 3
        /\ hist[c][1].m = UploadMsg("a", "PngA") /\ hist[c][1].o = "stored"
        /\ hist[c][2].m = NotJSON /\ hist[c][2].o = "badjson"
        /\ hist[c][3].m = RequestMsg("a") /\ hist[c][3].o = "sent"
        /\ out[c] = <<ResponseData(<<65>>)>>

(***************************************************************************)
(* C9.  Which messages are answered.                                       *)
(***************************************************************************)
\* C9: the messages sent on a connection are exactly the responses of its
\* requests with a non-empty id whose file existed at os.Stat, was read and
\* was sent; no other message is answered, and the handler stands before
\* conn.WriteMessage only with such a request in work.
C9_OnlyRequestsAnswered ==
    \A c \in Conns :
        /\ Len(out[c]) = Answered(c, Len(hist[c]))
        /\ \A i \in Entries(c) :
             LET e == hist[c][i]
             IN  e.k > 0 =>
                    /\ IsRequest(e.m) /\ e.m.id # ""
                    /\ e.o = "sent"
                    /\ e.v0 > 0
                    /\ e.k = Answered(c, i)
        /\ pc[c] = "send" =>
             /\ IsRequest(cur[c].m) /\ cur[c].m.id # ""
             /\ files[FileName(cur[c].id)].exists

\* an upload under the empty id was stored and a request of the empty id was
\* handled, and nothing was sent
C9_Witness ==
    \E c \in Conns :
        /\ Len(hist[c]) = 3
        /\ hist[c][1].m = UploadMsg("", "PngA") /\ hist[c][1].o = "stored"
        /\ hist[c][2].m = RequestMsg("") /\ hist[c][2].o = "emptyid"
        /\ hist[c][3].m = OtherMsg("a")
        /\ out[c] = <<>>

(***************************************************************************)
(* C10.  The end of a handler.                                             *)
(***************************************************************************)
\* C10: a handler that has returned holds no open connection, and a
\* connection is closed only by a handler that returns; after a failed
\* conn.ReadMessage the handler handles no further message; and, the
\* transport read failing at some time, every handler whose upgrade
\* succeeded returns with its connection closed.
C10_ClosedOnExit ==
    /\ [](\A c \in Conns :
            /\ pc[c] = "done" => conn[c] # "open"
            /\ conn[c] = "closed" => pc[c] = "done")
    /\ [][\A c \in Conns :
            pc[c] \in {"closing", "done"} =>
                /\ pc'[c] \in {"closing", "done"}
                /\ hist'[c] = hist[c] /\ out'[c] = out[c]]_vars
    /\ \A c \in Conns :
         (conn[c] = "open") ~> (pc[c] = "done" /\ conn[c] = "closed")

\* a handler that handled two messages has returned, its connection closed
C10_Witness ==
    \E c \in Conns :
        /\ pc[c] = "done" /\ conn[c] = "closed"
        /\ Len(hist[c]) = 2 /\ hist[c][2].o = "sent"

(***************************************************************************)
(* C11.  Failures of the file operations.                                  *)
(***************************************************************************)
\* C11 as claimed: after os.Open or file.Read has failed for a request, the
\* read loop of the connection has ended; after os.Create or file.Write has
\* failed for an upload, the handler stands at conn.ReadMessage again with
\* the connection open.
C11_ReadPathFailureFatal ==
    [][\A c \in Conns :
          Handled(c) =>
              /\ Last(c).o \in {"openfail", "readfail"} =>
                    pc'[c] \in {"closing", "done"}
              /\ Last(c).o \in {"createfail", "writefail"} =>
                    pc'[c] = "read" /\ conn'[c] = "open"]_vars

\* C11 amended: a failure of os.Create, file.Write, os.Open or file.Read is
\* skipped alike: nothing is sent for the message, the connection stays open
\* and its handler stands at conn.ReadMessage again; no file is changed by
\* the failing step unless it is a file.Write that wrote a part of its
\* bytes.
C11_FileFailuresSkipped ==
    [][\A c \in Conns :
          (Handled(c) /\ Last(c).o \in
                {"createfail", "writefail", "openfail", "readfail"}) =>
              /\ pc'[c] = "read" /\ conn'[c] = "open"
              /\ Last(c).k = 0
              /\ UNCHANGED <<out, held>>
              /\ Last(c).o # "writefail" => UNCHANGED <<files, ver>>]_vars

\* a write and an open failed on a connection, and the request that followed
\* them was answered
C11_Witness ==
    \E c \in Conns :
        /\ Len(hist[c]) = 3
        /\ hist[c][1].o = "writefail"
        /\ hist[c][2].o = "openfail"
        /\ hist[c][3].o = "sent"
        /\ conn[c] = "open" /\ pc[c] = "read"

(***************************************************************************)
(* C12.  A request that runs while another connection uploads the id.      *)
(***************************************************************************)
\* the uploads of connection c that have created their file: those handled,
\* and the one in work between its os.Create and its file.Write
CreatedUploads(c) ==
    {hist[c][i] : i \in {j \in Entries(c) :
                            IsUpload(hist[c][j].m)
                                /\ hist[c][j].o \in {"stored", "writefail"}}}
        \cup (IF pc[c] = "write" THEN {[m |-> cur[c].m, v0 |-> cur[c].v0]} ELSE {})

\* the bytes a response carries, as base64 text
CarriedText(resp) == SubSeq(resp, Len(ResponseLabel) + 1, Len(resp))

\* C12: a request of connection c whose os.Stat and file.Read both met the
\* file as the os.Create of an upload of another connection left it, before
\* that upload's file.Write, is answered, and its response carries the empty
\* content, which is the content of no upload.
C12_ObservesTruncatedFile ==
    \A c, c2 \in Conns : \A i \in Entries(c) :
        \A u \in (IF c2 # c THEN CreatedUploads(c2) ELSE {}) :
            LET r == hist[c][i]
            IN  (/\ IsRequest(r.m) /\ r.m.id # "" /\ r.m.id = u.m.id
                 /\ r.o \notin FaultOutcomes
                 /\ r.v0 = u.v0 /\ r.ver = u.v0) =>
                    /\ r.o = "sent"
                    /\ ResponseOf(c, r) = ResponseLabel
                    /\ \A m \in Messages(mode) :
                         (IsUpload(m) /\ UploadChecks(Unmarshal(m).v).next = "create") =>
                             CarriedText(ResponseOf(c, r)) # EncodeToString(Content(m))

\* connection 2 requested the id between the os.Create and the file.Write of
\* an upload of connection 1 that replaced a stored image, and was answered
\* with the empty content; the upload then stored its bytes
C12_Witness ==
    /\ Len(hist[1]) = 2 /\ Len(hist[2]) = 1
    /\ hist[1][1].o = "stored" /\ hist[1][2].o = "stored"
    /\ hist[2][1].m = RequestMsg("a") /\ hist[2][1].o = "sent"
    /\ hist[2][1].v0 = hist[1][2].v0 /\ hist[2][1].ver = hist[1][2].v0
    /\ out[2] = <<ResponseLabel>>
    /\ files[FileName("a")].data # <<>>

(***************************************************************************)
(* C13.  The file name and the label of a response.                        *)
(***************************************************************************)
\* the file of an id and the label of a response, as C13 words them
JpgFileOf(id) == "images/" \o id \o ".jpg"

JpgLabel ==
    <<"d","a","t","a",":","i","m","a","g","e","/","j","p","g",";",
      "b","a","s","e","6","4",",">>

\* C13: a step changes no file but <id>.jpg of the upload in work, whatever
\* subtype its payload declares; an upload that stored its bytes undisturbed
\* and last has them in <id>.jpg, whatever file an upload of another subtype
\* left there; and every response begins with data:image/jpg;base64,
\* followed by the encoding of bytes, whatever was uploaded.
C13_KeyIsIdLabelIsJpg ==
    /\ [][\A f \in FileNames :
            files'[f] # files[f] =>
                \E c \in Conns :
                    /\ pc[c] \in {"create", "write"}
                    /\ IsUpload(cur[c].m)
                    /\ f = JpgFileOf(cur[c].m.id)]_vars
    /\ [](\A c \in Conns : \A i \in Entries(c) :
            LET u == hist[c][i]
            IN  (/\ IsUpload(u.m) /\ u.o = "stored"
                 /\ u.ver = u.v0 + 1
                 /\ ver[JpgFileOf(u.m.id)] = u.ver) =>
                    files[JpgFileOf(u.m.id)] = [exists |-> TRUE, data |-> Content(u.m)])
    /\ [](\A c \in Conns : \A k \in 1..Len(out[c]) :
            /\ Len(out[c][k]) >= Len(JpgLabel)
            /\ SubSeq(out[c][k], 1, Len(JpgLabel)) = JpgLabel)

\* a png and then a gif were stored under one id, and the request was
\* answered with the bytes of the gif under the label jpg
C13_Witness ==
    \E c \in Conns :
        /\ Len(hist[c]) = 3
        /\ hist[c][1].m = UploadMsg("a", "PngA") /\ hist[c][1].o = "stored"
        /\ hist[c][2].m = UploadMsg("a", "GifXYZ") /\ hist[c][2].o = "stored"
        /\ hist[c][3].m = RequestMsg("a") /\ hist[c][3].o = "sent"
        /\ SubtypeOf(PayloadText("PngA")) # SubtypeOf(PayloadText("GifXYZ"))
        /\ files[JpgFileOf("a")].data = <<88, 89, 90>>
        /\ out[c] = <<JpgLabel \o B64Text("XYZ")>>

(***************************************************************************)
(* C14.  What leaves the stored files alone.                               *)
(***************************************************************************)
\* this step is a step of an upload: of a handler at os.Create or file.Write
UploadStep ==
    \E c \in Conns : pc[c] \in {"create", "write"} /\ pc'[c] # pc[c]

\* C14: a step that is not the os.Create or the file.Write of an upload (the
\* steps of a request, of an unknown command, of a message that is not JSON,
\* of a failed read) leaves every file as it is, and a file that exists
\* exists after every step.
C14_OnlyUploadsChangeFiles ==
    [][/\ ~UploadStep => UNCHANGED <<files, ver>>
       /\ \A f \in FileNames : files[f].exists => files'[f].exists]_vars

\* an image was stored, then requested and sent, then an unknown command
\* was handled, and the file holds the image
C14_Witness ==
    \E c \in Conns :
        /\ Len(hist[c]) = 3
        /\ hist[c][1].m = UploadMsg("a", "GifXYZ") /\ hist[c][1].o = "stored"
        /\ hist[c][2].m = RequestMsg("a") /\ hist[c][2].o = "sent"
        /\ hist[c][3].m = OtherMsg("a") /\ hist[c][3].o = "unknown"
        /\ files[FileName("a")] = [exists |-> TRUE, data |-> <<88, 89, 90>>]

(***************************************************************************)
(* C15.  An image stored by one connection, requested by another.          *)
(***************************************************************************)
\* C15: when an upload of connection c1 has stored its bytes, no other
\* create or write between its os.Create and its file.Write, and a request
\* of the same (non-empty) id on another connection c2 met the file at
\* os.Stat and at file.Read as that write left it, the request is answered,
\* unless a file operation or the send fails, with the bytes of that upload,
\* whether or not c2 has ever uploaded anything.
C15_VisibleToOtherConnections ==
    \A c1, c2 \in Conns : \A i \in Entries(c1) : \A j \in Entries(c2) :
        LET u == hist[c1][i]
            r == hist[c2][j]
        IN  (/\ c1 # c2
             /\ IsUpload(u.m) /\ u.o = "stored" /\ u.ver = u.v0 + 1
             /\ IsRequest(r.m) /\ r.m.id = u.m.id /\ r.m.id # ""
             /\ r.v0 = u.ver /\ r.ver = u.ver
             /\ r.o \notin FaultOutcomes) =>
                /\ r.o = "sent"
                /\ ResponseOf(c2, r) = ResponseLabel \o EncodeToString(Content(u.m))

\* connection 1 stored an image and connection 2, which uploaded nothing,
\* requested it and was answered with it
C15_Witness ==
    /\ hist[1] # <<>> /\ Len(hist[2]) = 1
    /\ hist[1][1].m = UploadMsg("a", "PngA") /\ hist[1][1].o = "stored"
    /\ hist[2][1].m = RequestMsg("a") /\ hist[2][1].o = "sent"
    /\ hist[2][1].v0 = hist[1][1].ver /\ hist[2][1].ver = hist[1][1].ver
    /\ out[2] = <<ResponseLabel \o B64Text("A")>>

(***************************************************************************)
(* C16.  One message at a time.                                            *)
(***************************************************************************)
\* the messages connection c has taken from conn.ReadMessage
Taken(c) == Len(hist[c]) + IF InWork(c) THEN 1 ELSE 0

\* C16: a connection takes a message only while no message of it is in work
\* (no file operation or send of the previous one pending), one at a time;
\* a step sends at most one message, and the step that sends it ends the
\* handling of the message that caused it, so that no message is answered
\* twice; and the responses stand in the order of their requests.
C16_OneAtATime ==
    /\ [][\A c \in Conns :
            /\ Taken(c)' # Taken(c) =>
                  /\ ~InWork(c) /\ pc[c] = "read"
                  /\ Taken(c)' = Taken(c) + 1
            /\ out'[c] # out[c] =>
                  /\ InWork(c) /\ Handled(c)
                  /\ Len(out'[c]) = Len(out[c]) + 1
                  /\ SubSeq(out'[c], 1, Len(out[c])) = out[c]
                  /\ Last(c).k = Len(out'[c])
                  /\ Last(c).m = cur[c].m]_vars
    /\ [](\A c \in Conns : \A i, j \in Entries(c) :
            /\ hist[c][i].k <= Len(out[c])
            /\ (i < j /\ hist[c][i].k > 0 /\ hist[c][j].k > 0) =>
                  hist[c][i].k < hist[c][j].k)

\* connection 2 requested the id twice while connection 1 uploaded it, and
\* was answered twice, in that order: before the write and after it
C16_Witness ==
    /\ Len(hist[2]) = 2
    /\ hist[2][1].o = "sent" /\ hist[2][1].k = 1
    /\ hist[2][2].o = "sent" /\ hist[2][2].k = 2
    /\ out[2] = <<ResponseLabel, ResponseLabel \o B64Text("XYZ")>>

(***************************************************************************)
(* C17.  The base64 segment of an upload.                                  *)
(***************************************************************************)
\* the places of the commas of a text, and the text after the first of them
Commas(p) == {i \in 1..Len(p) : p[i] = ","}

AfterFirstComma(p) ==
    LET first == CHOOSE i \in Commas(p) : \A j \in Commas(p) : i <= j
    IN  SubSeq(p, first + 1, Len(p))

PrefixedUpload(m) == IsUpload(m) /\ HasPrefix(PayloadText(m.img), DataImagePrefix)

\* C17: of an upload whose payload starts with data:image/, the bytes to
\* store are those that the text after the first comma of the payload
\* decodes to; the upload is dropped as a skipped message (no file written,
\* connection open) when the payload has no comma, and when the text after
\* the first comma is no base64 text, as it is when that comma stands
\* before the marker ;base64, - and reaches os.Create in no other case.
C17_SegmentAfterFirstComma ==
    /\ [](\A c \in Conns :
            (pc[c] \in {"create", "write"}) =>
                LET p == PayloadText(cur[c].m.img)
                IN  /\ PrefixedUpload(cur[c].m)
                    /\ Commas(p) # {}
                    /\ ~DecodeString(AfterFirstComma(p)).err
                    /\ cur[c].bytes = DecodeString(AfterFirstComma(p)).bytes)
    /\ [][\A c \in Conns :
            (Handled(c) /\ PrefixedUpload(Last(c).m)) =>
                LET p == PayloadText(Last(c).m.img)
                IN  /\ Commas(p) = {} => Skipped(c) /\ Last(c).o = "nocomma"
                    /\ (Commas(p) # {} /\ DecodeString(AfterFirstComma(p)).err) =>
                          Skipped(c) /\ Last(c).o = "badb64"
                    /\ (Commas(p) # {} /\ MarkerAt(p) > 0
                            /\ \E i \in Commas(p) : i < MarkerAt(p)) =>
                          Skipped(c)]_vars

\* a payload without a comma and a payload with a comma in its subtype,
\* whose text after the marker is base64 text, were dropped, and no file
\* was written
C17_Witness ==
    \E c \in Conns :
        /\ Len(hist[c]) = 2
        /\ hist[c][1].m = UploadMsg("a", "NoComma") /\ hist[c][1].o = "nocomma"
        /\ hist[c][2].m = UploadMsg("a", "CommaSubtype") /\ hist[c][2].o = "badb64"
        /\ ~DecodeString(B64Of(PayloadText("CommaSubtype"))).err
        /\ AfterFirstComma(PayloadText("CommaSubtype")) # B64Of(PayloadText("CommaSubtype"))
        /\ ~files[FileName("a")].exists
        /\ conn[c] = "open" /\ pc[c] = "read"

(***************************************************************************)
(* C18.  The empty id.                                                     *)
(***************************************************************************)
EmptyIdFile == "images/.jpg"

\* C18: a request with the empty id is dropped where it is read: no
\* os.Stat, no os.Open, no file.Read, nothing sent, also when images/.jpg
\* exists; an upload with the empty id and a valid payload is not dropped:
\* unless os.Create or file.Write fails it stores its bytes, and they are in
\* images/.jpg while no later os.Create or file.Write touched that file.
C18_EmptyIdOnlyRequestChecked ==
    /\ [](\A c \in Conns :
            InWork(c) => ~(IsRequest(cur[c].m) /\ cur[c].m.id = ""))
    /\ [][\A c \in Conns :
            (Handled(c) /\ IsRequest(Last(c).m) /\ Last(c).m.id = "") =>
                Skipped(c) /\ Last(c).k = 0]_vars
    /\ [](\A c \in Conns : \A i \in Entries(c) :
            LET u == hist[c][i]
            IN  (/\ IsUpload(u.m) /\ u.m.id = ""
                 /\ ValidDataURI(PayloadText(u.m.img))
                 /\ u.o \notin FaultOutcomes) =>
                    /\ u.o = "stored"
                    /\ files[EmptyIdFile].exists
                    /\ (u.ver = u.v0 + 1 /\ ver[EmptyIdFile] = u.ver) =>
                          files[EmptyIdFile].data =
                              DecodeString(B64Of(PayloadText(u.m.img))).bytes)

\* an upload with the empty id stored its byte in images/.jpg, and the
\* request with the empty id that followed opened no file and was not
\* answered
C18_Witness ==
    \E c \in Conns :
        /\ Len(hist[c]) = 2
        /\ hist[c][1].m = UploadMsg("", "PngA") /\ hist[c][1].o = "stored"
        /\ hist[c][2].m = RequestMsg("") /\ hist[c][2].o = "emptyid"
        /\ files[EmptyIdFile] = [exists |-> TRUE, data |-> <<65>>]
        /\ held[c] = 1
        /\ out[c] = <<>>

(***************************************************************************)
(* C19.  A rejected upload and the file stored before it.                  *)
(***************************************************************************)
\* the upload is rejected: at the prefix, at the comma or at the decoding
RejectedUpload(m) ==
    /\ IsUpload(m)
    /\ LET p == PayloadText(m.img)
       IN  \/ ~HasPrefix(p, DataImagePrefix)
           \/ Commas(p) = {}
           \/ DecodeString(AfterFirstComma(p)).err

\* C19: the step that handles a rejected upload changes no file (nor opens
\* one); os.Create is reached by no rejected upload, so a stored file is
\* truncated only by an upload whose payload has been decoded; and a file
\* stored under the id before the rejected upload is what a later request
\* on the connection is answered with, when nothing else wrote it.
C19_RejectedUploadKeepsStorage ==
    /\ [][\A c \in Conns :
            (Handled(c) /\ RejectedUpload(Last(c).m)) =>
                /\ UNCHANGED <<files, ver, held>>
                /\ pc[c] = "read"]_vars
    /\ [][\A f \in FileNames :
            (files[f].exists /\ files'[f].data = <<>> /\ files[f].data # <<>>) =>
                \E c \in Conns :
                    /\ pc[c] = "create" /\ pc'[c] = "write"
                    /\ ~RejectedUpload(cur[c].m)
                    /\ f = FileName(cur[c].m.id)]_vars
    /\ [](\A c \in Conns : \A i, j, k \in Entries(c) :
            LET u == hist[c][i]
                x == hist[c][j]
                r == hist[c][k]
            IN  (/\ i < j /\ j < k
                 /\ IsUpload(u.m) /\ u.o = "stored" /\ u.ver = u.v0 + 1
                 /\ RejectedUpload(x.m) /\ x.m.id = u.m.id
                 /\ IsRequest(r.m) /\ r.m.id = u.m.id /\ r.m.id # ""
                 /\ r.v0 = u.ver /\ r.ver = u.ver
                 /\ r.o \notin FaultOutcomes) =>
                    /\ r.o = "sent"
                    /\ ResponseOf(c, r) =
                         ResponseLabel
                             \o EncodeToString(DecodeString(AfterFirstComma(PayloadText(u.m.img))).bytes))

\* three bytes were stored, an upload of the same id with broken base64 was
\* rejected, and the request that followed was answered with the three bytes
C19_Witness ==
    \E c \in Conns :
        /\ Len(hist[c]) = 3
        /\ hist[c][1].m = UploadMsg("a", "GifXYZ") /\ hist[c][1].o = "stored"
        /\ hist[c][2].m = UploadMsg("a", "PngBroken") /\ hist[c][2].o = "badb64"
        /\ hist[c][3].m = RequestMsg("a") /\ hist[c][3].o = "sent"
        /\ files[FileName("a")].data = <<88, 89, 90>>
        /\ out[c] = <<ResponseLabel \o B64Text("XYZ")>>

(***************************************************************************)
(* C20.  The file handles of a handler.                                    *)
(***************************************************************************)
\* the os.Create and os.Open calls of connection c that succeeded: those of
\* the messages handled, and that of the message in work
Opened(c) ==
    Cardinality({i \in Entries(c) :
                    hist[c][i].o \in {"stored", "writefail", "readfail", "sent", "sendfail"}})
        + IF pc[c] \in {"write", "fread", "send"} THEN 1 ELSE 0

\* C20: while the handler runs, the files it holds open are all those it has
\* created or opened so far, none closed when its message is finished; a
\* handle is closed only by the step that leaves the loop, which closes all
\* of them; and the connection is closed only when none is held.
C20_HandlesHeldUntilExit ==
    /\ [](\A c \in Conns :
            /\ pc[c] \notin {"closing", "done"} => held[c] = Opened(c)
            /\ pc[c] \in {"closing", "done"} => held[c] = 0
            /\ conn[c] = "closed" => held[c] = 0)
    /\ [][\A c \in Conns :
            /\ held'[c] < held[c] =>
                  pc[c] = "read" /\ pc'[c] = "closing" /\ held'[c] = 0
            /\ (conn[c] = "open" /\ conn'[c] = "closed") => held[c] = 0]_vars

\* a handler that has stored an image and answered a request of it is back
\* at conn.ReadMessage and holds both files open
C20_Witness ==
    \E c \in Conns :
        /\ Len(hist[c]) = 2 /\ pc[c] = "read"
        /\ hist[c][1].o = "stored" /\ hist[c][2].o = "sent"
        /\ held[c] = 2

====
